---- MODULE Spec2Model ----
(***************************************************************************)
(* Model of the retrieval-augmented chatbot of app+gpt.py (and of app.py,  *)
(* whose index, session memory and prompt code is the same text).          *)
(*                                                                         *)
(* Texts are sequences of tokens.  A token is either one character (the    *)
(* provider answers, on which lower(), strip() and the substring test      *)
(* act) or one literal of the source taken whole (SECURITY_CONTEXT, the    *)
(* labels of the f-strings, a chunk's page_content, a question, an         *)
(* exception's description).  Emoji that open the labels in the source     *)
(* are left out of the literals.                                           *)
(***************************************************************************)
EXTENDS Naturals, Sequences, FiniteSets

VARIABLES
    \* ---- request pipeline (module state) ----
    store,          \* store = {} : session_id -> history object (0: key absent)
    heap,           \* history object id -> its .messages list
    vectorstore,    \* the texts held by the loaded vector store
    \* ---- request pipeline (locals of the request a thread runs) ----
    pc,             \* position of the thread in ask_secure_bot
    question, session, ctx_docs, prompt, hist, input, answer, result,
    err1, err2,     \* str(e) and str(e2) of the two except clauses
    logged,         \* the text the thread printed last
    \* ---- request pipeline (bookkeeping of the run, not program state) ----
    started,        \* requests started so far
    primaryCalls, fallbackCalls,  \* provider invocations of the current request
    primaryStatus,  \* "none" | "returned" | "raised" for the current request
    histAtStart,    \* transcript stored for the session when the request began
    appended,       \* per session: the messages add_message appended, in order
    \* ---- index construction (process start-up) ----
    dataDir,        \* file of ./data -> version of its content ("absent" if none)
    persisted,      \* INDEX_DIR on disk: [exists, entries]
    ipc,            \* position of the start-up script
    docs,           \* local docs of build_or_load_index
    embedded,       \* how many of docs the build has embedded
    embedCalls,     \* embedding requests made since the model started
    runs            \* process runs started so far

pipeVars == <<store, heap, vectorstore, pc, question, session, ctx_docs,
              prompt, hist, input, answer, result, err1, err2, logged, started,
              primaryCalls, fallbackCalls, primaryStatus, histAtStart, appended>>
indexVars == <<dataDir, persisted, ipc, docs, embedded, embedCalls, runs>>
vars == <<pipeVars, indexVars>>

(***************************************************************************)
(* Bounds of the model.                                                    *)
(***************************************************************************)
MaxRequests == 2
MaxRuns == 3

Threads == {"t1", "t2"}
SessionIds == {"A", "B"}
Questions == {"q1", "q2"}
EmbeddingErrors == {"EmbeddingError"}
BedrockErrors == {"ThrottlingException"}
OpenAIErrors == {"RateLimitError"}

(***************************************************************************)
(* Text operations.                                                        *)
(***************************************************************************)
Whitespace == {" ", "\n", "\t"}

\* str.lower() on one character (the letters the answers below use)
LowerChar(c) ==
    CASE c = "U" -> "u" [] c = "N" -> "n" [] c = "T" -> "t" [] c = "O" -> "o"
      [] c = "R" -> "r" [] c = "D" -> "d" [] c = "K" -> "k" [] c = "I" -> "i"
      [] c = "G" -> "g" [] c = "P" -> "p"
      [] OTHER -> c

Lower(s) == [i \in 1..Len(s) |-> LowerChar(s[i])]

RECURSIVE LStrip(_)
LStrip(s) == IF s # <<>> /\ Head(s) \in Whitespace THEN LStrip(Tail(s)) ELSE s

RECURSIVE RStrip(_)
RStrip(s) ==
    IF s # <<>> /\ s[Len(s)] \in Whitespace
    THEN RStrip(SubSeq(s, 1, Len(s) - 1))
    ELSE s

\* str.strip()
Strip(s) == RStrip(LStrip(s))

\* sub in s
Contains(s, sub) ==
    \E i \in 0..(Len(s) - Len(sub)) : SubSeq(s, i + 1, i + Len(sub)) = sub

\* sep.join(parts)
RECURSIVE Join(_, _)
Join(parts, sep) ==
    IF parts = <<>> THEN <<>>
    ELSE IF Len(parts) = 1 THEN Head(parts)
    ELSE Head(parts) \o sep \o Join(Tail(parts), sep)

(***************************************************************************)
(* Literals of the source.                                                 *)
(***************************************************************************)
SECURITY_CONTEXT == <<"You are an AWS Security & Compliance expert. ...">>
CONTEXT_LABEL == <<"\n\nContext:\n">>
QUESTION_LABEL == <<"\n\nQuestion: ">>
NEWLINE == <<"\n">>
BLANK_LINE == <<"\n\n">>
BEDROCK_LABEL == <<"**Bedrock:**\n\n">>
CHATGPT_LABEL == <<"**ChatGPT Fallback:**\n\n">>
BOTH_FAILED_LABEL == <<"Both models failed: ">>
FALLBACK_LOG == <<"[Fallback] ">>
BEDROCK_FAILED == <<"Bedrock failed, switching to ChatGPT">>
UNABLE_TO_RESPOND ==
    <<"u","n","a","b","l","e"," ","t","o"," ","r","e","s","p","o","n","d">>
ATTRIBUTE_ERROR == "'NoneType' object has no attribute 'strip'"

\* retriever = vectorstore.as_retriever(search_kwargs={"k": 4})
K == 4

(***************************************************************************)
(* What the providers may answer.                                          *)
(***************************************************************************)
ANS_EMPTY == <<>>
ANS_BLANK == <<" ", "\n">>
ANS_UNABLE == UNABLE_TO_RESPOND
ANS_MIXED ==
    <<"I", " ">> \o
    <<"U","N","a","b","l","e"," ","T","o"," ","R","e","s","p","o","n","D">> \o
    <<".">>
ANS_OK == <<" ", "O", "K", " ">>
ANS_NEAR == <<"u","n","a","b","l","e"," ","t","o">>

PrimaryAnswers == {ANS_EMPTY, ANS_BLANK, ANS_UNABLE, ANS_MIXED, ANS_OK, ANS_NEAR}

\* response.choices[0].message.content: a text, or None
NoneContent == <<"<None>">>
GPT_TEXT == <<" ", "G", "P", "T", "\n">>
FallbackContents == {GPT_TEXT, <<>>, NoneContent}

NoText == <<"<unset>">>

HumanMessage(content) == [role |-> "human", content |-> content]
AIMessage(content) == [role |-> "ai", content |-> content]

(***************************************************************************)
(* Session memory: store and get_session_history.                          *)
(***************************************************************************)
Min(a, b) == IF a < b THEN a ELSE b

\* session_id not in store  (faulty variant: the test always succeeds)
SessionAlwaysMissing(sid) == TRUE

SessionMissing(sid) == store[sid] = 0

\* the transcript stored under sid (empty when the key is absent)
Transcript(sid) == IF store[sid] = 0 THEN <<>> ELSE heap[store[sid]]

(***************************************************************************)
(* Retrieval: the k nearest texts of the store, nearest first.  Distances  *)
(* are the embedding provider's, so any order of any Min(K, n) texts may   *)
(* come back.                                                              *)
(***************************************************************************)
SearchResults ==
    LET n == Len(vectorstore)
        m == Min(K, n)
        picks == {f \in [1..m -> 1..n] : \A i, j \in 1..m : i # j => f[i] # f[j]}
    IN  {[i \in 1..m |-> vectorstore[f[i]]] : f \in picks}

(***************************************************************************)
(* Prompt composition (ask_bedrock).                                       *)
(***************************************************************************)
\* "\n\n".join([d.page_content for d in ctx_docs]) if ctx_docs else ""
ContextText(ctxdocs) ==
    IF ctxdocs # <<>> THEN Join([i \in 1..Len(ctxdocs) |-> <<ctxdocs[i]>>], BLANK_LINE)
    ELSE <<>>

\* faulty variant: the question is placed ahead of the context
ComposeQuestionFirst(ctxdocs, q) ==
    SECURITY_CONTEXT \o QUESTION_LABEL \o <<q>> \o CONTEXT_LABEL
        \o ContextText(ctxdocs) \o NEWLINE

ComposePrompt(ctxdocs, q) ==
    SECURITY_CONTEXT \o CONTEXT_LABEL \o ContextText(ctxdocs)
        \o QUESTION_LABEL \o <<q>> \o NEWLINE

(***************************************************************************)
(* The fallback decision and the returned texts (ask_secure_bot).          *)
(***************************************************************************)
\* faulty variant: the marker is searched without lower()
IsDegenerateCaseSensitive(a) ==
    Contains(a, UNABLE_TO_RESPOND) \/ Strip(a) = <<>>

\* faulty variant: every answer is rejected
IsDegenerateAlways(a) == TRUE

\* "unable to respond" in answer.lower() or not answer.strip()
IsDegenerate(a) ==
    Contains(Lower(a), UNABLE_TO_RESPOND) \/ Strip(a) = <<>>

BedrockText(a) == BEDROCK_LABEL \o a

ChatGPTText(a) == CHATGPT_LABEL \o a

\* faulty variant: the description of the error is dropped
BothFailedTextNoError(e) == BOTH_FAILED_LABEL

BothFailedText(e) == BOTH_FAILED_LABEL \o <<e>>

FallbackLogLine(e) == FALLBACK_LOG \o <<e>>

(***************************************************************************)
(* The request pipeline.  States of a thread:                              *)
(*   idle                 no request yet                                   *)
(*   retrieving           ask_bedrock: retriever.invoke in flight          *)
(*   composing            ask_bedrock: building ctx and prompt             *)
(*   gsh_check            get_session_history: the test on store           *)
(*   gsh_create           get_session_history: storing a new history       *)
(*   gsh_return           get_session_history: return store[session_id]    *)
(*   load_history         the wrapper reads the history's messages         *)
(*   generating_primary   the Bedrock call is in flight                    *)
(*   append_human, append_ai   the wrapper's add_messages                  *)
(*   check_answer         ask_secure_bot: the test on the answer           *)
(*   generating_fallback  ask_chatgpt: the OpenAI call is in flight        *)
(*   done, failed         ask_secure_bot has returned                      *)
(***************************************************************************)
Quiescent == {"idle", "done", "failed"}

SessionsInit ==
    /\ store = [s \in SessionIds |-> 0]
    /\ heap = <<>>
    /\ pc = [t \in Threads |-> "idle"]
    /\ question = [t \in Threads |-> ""]
    /\ session = [t \in Threads |-> ""]
    /\ ctx_docs = [t \in Threads |-> <<>>]
    /\ prompt = [t \in Threads |-> NoText]
    /\ hist = [t \in Threads |-> 0]
    /\ input = [t \in Threads |-> <<>>]
    /\ answer = [t \in Threads |-> NoText]
    /\ result = [t \in Threads |-> NoText]
    /\ err1 = [t \in Threads |-> ""]
    /\ err2 = [t \in Threads |-> ""]
    /\ logged = [t \in Threads |-> <<>>]
    /\ started = 0
    /\ primaryCalls = [t \in Threads |-> 0]
    /\ fallbackCalls = [t \in Threads |-> 0]
    /\ primaryStatus = [t \in Threads |-> "none"]
    /\ histAtStart = [t \in Threads |-> <<>>]
    /\ appended = [s \in SessionIds |-> <<>>]

\* the index variables while the pipeline runs: the script has started up
IndexIdle ==
    /\ dataDir = [f \in {"nist", "cis", "extra"} |-> IF f = "extra" THEN "absent" ELSE "default"]
    /\ persisted = [exists |-> TRUE, entries |-> vectorstore]
    /\ ipc = "ready"
    /\ docs = <<>>
    /\ embedded = 0
    /\ embedCalls = 0
    /\ runs = 1

\* answer = ask_secure_bot(user_question): a request begins
Ask(t, q, sid) ==
    /\ UNCHANGED indexVars
    /\ pc[t] \in Quiescent
    /\ started < MaxRequests
    /\ started' = started + 1
    /\ pc' = [pc EXCEPT ![t] = "retrieving"]
    /\ question' = [question EXCEPT ![t] = q]
    /\ session' = [session EXCEPT ![t] = sid]
    /\ ctx_docs' = [ctx_docs EXCEPT ![t] = <<>>]
    /\ prompt' = [prompt EXCEPT ![t] = NoText]
    /\ hist' = [hist EXCEPT ![t] = 0]
    /\ input' = [input EXCEPT ![t] = <<>>]
    /\ answer' = [answer EXCEPT ![t] = NoText]
    /\ result' = [result EXCEPT ![t] = NoText]
    /\ err1' = [err1 EXCEPT ![t] = ""]
    /\ err2' = [err2 EXCEPT ![t] = ""]
    /\ logged' = [logged EXCEPT ![t] = <<>>]
    /\ primaryCalls' = [primaryCalls EXCEPT ![t] = 0]
    /\ fallbackCalls' = [fallbackCalls EXCEPT ![t] = 0]
    /\ primaryStatus' = [primaryStatus EXCEPT ![t] = "none"]
    /\ histAtStart' = [histAtStart EXCEPT ![t] = Transcript(sid)]
    /\ UNCHANGED <<store, heap, vectorstore, appended>>

\* the except clause of ask_secure_bot: print, then ask_chatgpt starts
EnterFallback(t, e) ==
    /\ err1' = [err1 EXCEPT ![t] = e]
    /\ logged' = [logged EXCEPT ![t] = FallbackLogLine(e)]
    /\ fallbackCalls' = [fallbackCalls EXCEPT ![t] = @ + 1]
    /\ pc' = [pc EXCEPT ![t] = "generating_fallback"]

\* ctx_docs = retriever.invoke(question) returns
RetrieveReturns(t, found) ==
    /\ UNCHANGED indexVars
    /\ pc[t] = "retrieving"
    /\ found \in SearchResults
    /\ ctx_docs' = [ctx_docs EXCEPT ![t] = found]
    /\ pc' = [pc EXCEPT ![t] = "composing"]
    /\ UNCHANGED <<store, heap, vectorstore, question, session, prompt, hist,
                   input, answer, result, err1, err2, logged, started,
                   primaryCalls, fallbackCalls, primaryStatus, histAtStart, appended>>

\* retriever.invoke raises (the embedding request failed)
RetrieveRaises(t, e) ==
    /\ UNCHANGED indexVars
    /\ pc[t] = "retrieving"
    /\ EnterFallback(t, e)
    /\ UNCHANGED <<store, heap, vectorstore, question, session, ctx_docs, prompt,
                   hist, input, answer, result, err2, started, primaryCalls,
                   primaryStatus, histAtStart, appended>>

\* ctx = ...; prompt = f"""..."""; with_message_history.invoke(...) is entered
Compose(t) ==
    /\ UNCHANGED indexVars
    /\ pc[t] = "composing"
    /\ prompt' = [prompt EXCEPT ![t] = ComposePrompt(ctx_docs[t], question[t])]
    /\ pc' = [pc EXCEPT ![t] = "gsh_check"]
    /\ UNCHANGED <<store, heap, vectorstore, question, session, ctx_docs, hist,
                   input, answer, result, err1, err2, logged, started,
                   primaryCalls, fallbackCalls, primaryStatus, histAtStart, appended>>

\* if session_id not in store:
GshCheck(t) ==
    /\ UNCHANGED indexVars
    /\ pc[t] = "gsh_check"
    /\ pc' = [pc EXCEPT ![t] = IF SessionMissing(session[t]) THEN "gsh_create"
                                ELSE "gsh_return"]
    /\ UNCHANGED <<store, heap, vectorstore, question, session, ctx_docs, prompt,
                   hist, input, answer, result, err1, err2, logged, started,
                   primaryCalls, fallbackCalls, primaryStatus, histAtStart, appended>>

\* store[session_id] = InMemoryChatMessageHistory()
GshCreate(t) ==
    /\ UNCHANGED indexVars
    /\ pc[t] = "gsh_create"
    /\ heap' = Append(heap, <<>>)
    /\ store' = [store EXCEPT ![session[t]] = Len(heap) + 1]
    /\ pc' = [pc EXCEPT ![t] = "gsh_return"]
    /\ UNCHANGED <<vectorstore, question, session, ctx_docs, prompt, hist, input,
                   answer, result, err1, err2, logged, started, primaryCalls,
                   fallbackCalls, primaryStatus, histAtStart, appended>>

\* return store[session_id]
GshReturn(t) ==
    /\ UNCHANGED indexVars
    /\ pc[t] = "gsh_return"
    /\ hist' = [hist EXCEPT ![t] = store[session[t]]]
    /\ pc' = [pc EXCEPT ![t] = "load_history"]
    /\ UNCHANGED <<store, heap, vectorstore, question, session, ctx_docs, prompt,
                   input, answer, result, err1, err2, logged, started,
                   primaryCalls, fallbackCalls, primaryStatus, histAtStart, appended>>

\* the wrapper puts the history's messages ahead of the input messages and
\* calls llm_chat
LoadHistory(t) ==
    /\ UNCHANGED indexVars
    /\ pc[t] = "load_history"
    /\ input' = [input EXCEPT ![t] = heap[hist[t]] \o <<HumanMessage(prompt[t])>>]
    /\ primaryCalls' = [primaryCalls EXCEPT ![t] = @ + 1]
    /\ pc' = [pc EXCEPT ![t] = "generating_primary"]
    /\ UNCHANGED <<store, heap, vectorstore, question, session, ctx_docs, prompt,
                   hist, answer, result, err1, err2, logged, started,
                   fallbackCalls, primaryStatus, histAtStart, appended>>

\* llm_chat returns a message
PrimaryReturns(t, a) ==
    /\ UNCHANGED indexVars
    /\ pc[t] = "generating_primary"
    /\ a \in PrimaryAnswers
    /\ answer' = [answer EXCEPT ![t] = a]
    /\ primaryStatus' = [primaryStatus EXCEPT ![t] = "returned"]
    /\ pc' = [pc EXCEPT ![t] = "append_human"]
    /\ UNCHANGED <<store, heap, vectorstore, question, session, ctx_docs, prompt,
                   hist, input, result, err1, err2, logged, started,
                   primaryCalls, fallbackCalls, histAtStart, appended>>

\* llm_chat raises: nothing is added to the history
PrimaryRaises(t, e) ==
    /\ UNCHANGED indexVars
    /\ pc[t] = "generating_primary"
    /\ primaryStatus' = [primaryStatus EXCEPT ![t] = "raised"]
    /\ EnterFallback(t, e)
    /\ UNCHANGED <<store, heap, vectorstore, question, session, ctx_docs, prompt,
                   hist, input, answer, result, err2, started, primaryCalls,
                   histAtStart, appended>>

\* the wrapper's add_messages: add_message(the input message)
AppendHuman(t) ==
    /\ UNCHANGED indexVars
    /\ pc[t] = "append_human"
    /\ heap' = [heap EXCEPT ![hist[t]] = Append(@, HumanMessage(prompt[t]))]
    /\ appended' = [appended EXCEPT ![session[t]] = Append(@, HumanMessage(prompt[t]))]
    /\ pc' = [pc EXCEPT ![t] = "append_ai"]
    /\ UNCHANGED <<store, vectorstore, question, session, ctx_docs, prompt, hist,
                   input, answer, result, err1, err2, logged, started,
                   primaryCalls, fallbackCalls, primaryStatus, histAtStart>>

\* the wrapper's add_messages: add_message(the output message); invoke returns
AppendAI(t) ==
    /\ UNCHANGED indexVars
    /\ pc[t] = "append_ai"
    /\ heap' = [heap EXCEPT ![hist[t]] = Append(@, AIMessage(answer[t]))]
    /\ appended' = [appended EXCEPT ![session[t]] = Append(@, AIMessage(answer[t]))]
    /\ pc' = [pc EXCEPT ![t] = "check_answer"]
    /\ UNCHANGED <<store, vectorstore, question, session, ctx_docs, prompt, hist,
                   input, answer, result, err1, err2, logged, started,
                   primaryCalls, fallbackCalls, primaryStatus, histAtStart>>

\* if "unable to respond" in answer.lower() or not answer.strip(): raise ...
\* return f"**Bedrock:**\n\n{answer}"
CheckAnswer(t) ==
    /\ UNCHANGED indexVars
    /\ pc[t] = "check_answer"
    /\ IF IsDegenerate(answer[t])
       THEN /\ EnterFallback(t, BEDROCK_FAILED[1])
            /\ UNCHANGED result
       ELSE /\ result' = [result EXCEPT ![t] = BedrockText(answer[t])]
            /\ pc' = [pc EXCEPT ![t] = "done"]
            /\ UNCHANGED <<err1, logged, fallbackCalls>>
    /\ UNCHANGED <<store, heap, vectorstore, question, session, ctx_docs, prompt,
                   hist, input, answer, err2, started, primaryCalls,
                   primaryStatus, histAtStart, appended>>

\* client.chat.completions.create returns; .content.strip() raises on None
FallbackReturns(t, content) ==
    /\ UNCHANGED indexVars
    /\ pc[t] = "generating_fallback"
    /\ content \in FallbackContents
    /\ IF content = NoneContent
       THEN /\ err2' = [err2 EXCEPT ![t] = ATTRIBUTE_ERROR]
            /\ result' = [result EXCEPT ![t] = BothFailedText(ATTRIBUTE_ERROR)]
            /\ pc' = [pc EXCEPT ![t] = "failed"]
       ELSE /\ result' = [result EXCEPT ![t] = ChatGPTText(Strip(content))]
            /\ pc' = [pc EXCEPT ![t] = "done"]
            /\ UNCHANGED err2
    /\ UNCHANGED <<store, heap, vectorstore, question, session, ctx_docs, prompt,
                   hist, input, answer, err1, logged, started, primaryCalls,
                   fallbackCalls, primaryStatus, histAtStart, appended>>

\* client.chat.completions.create raises
FallbackRaises(t, e) ==
    /\ UNCHANGED indexVars
    /\ pc[t] = "generating_fallback"
    /\ err2' = [err2 EXCEPT ![t] = e]
    /\ result' = [result EXCEPT ![t] = BothFailedText(e)]
    /\ pc' = [pc EXCEPT ![t] = "failed"]
    /\ UNCHANGED <<store, heap, vectorstore, question, session, ctx_docs, prompt,
                   hist, input, answer, err1, logged, started, primaryCalls,
                   fallbackCalls, primaryStatus, histAtStart, appended>>

(***************************************************************************)
(* Start-up of the script: the default files and build_or_load_index.      *)
(* Positions of the script:                                                *)
(*   stopped    no process                                                 *)
(*   bootstrap  DATA_DIR.mkdir and the two default files                   *)
(*   call       build_or_load_index is entered                             *)
(*   split      the load branch was not taken: loading and splitting       *)
(*   create     Chroma.from_documents opens the store at INDEX_DIR         *)
(*   embed      from_documents embeds the texts                            *)
(*   persist    the texts are in the store; vectorstore.persist() is next  *)
(*   ready      vectorstore is bound; the pipeline can serve               *)
(*   crashed    an exception left the script                               *)
(***************************************************************************)
Files == <<"nist", "cis", "extra">>
FileSet == {Files[i] : i \in 1..Len(Files)}
Versions == {"absent", "default", "edited"}

\* the chunks the splitter makes of a file as it stands
ChunksOf(f, v) ==
    IF v = "absent" THEN <<>>
    ELSE IF v = "default" THEN <<f \o ".default#1">>
    ELSE IF f = "extra" THEN <<"extra#1">>
    ELSE <<f \o ".edited#1", f \o ".edited#2">>

\* docs += splitter.split_documents(...) for file in DATA_DIR.glob("*.txt")
RECURSIVE AllChunks(_, _)
AllChunks(dir, i) ==
    IF i > Len(Files) THEN <<>>
    ELSE ChunksOf(Files[i], dir[Files[i]]) \o AllChunks(dir, i + 1)

sessionVars == <<store, heap, pc, question, session, ctx_docs, prompt, hist,
                 input, answer, result, err1, err2, logged, started,
                 primaryCalls, fallbackCalls, primaryStatus, histAtStart, appended>>

Absent == [exists |-> FALSE, entries |-> <<>>]

\* faulty variant: the test looks at a path that never exists
IndexDirNeverExists == FALSE

\* Path(INDEX_DIR).exists()
IndexDirExists == persisted.exists

BuildPositions == {"split", "create", "embed", "persist"}

IndexInit ==
    /\ dataDir \in [FileSet -> Versions]
    /\ dataDir["extra"] # "default"
    /\ persisted = Absent
    /\ ipc = "stopped"
    /\ docs = <<>>
    /\ embedded = 0
    /\ embedCalls = 0
    /\ runs = 0
    /\ vectorstore = <<>>

\* the script is run
StartProcess ==
    /\ UNCHANGED sessionVars
    /\ ipc \in {"stopped", "ready", "crashed"}
    /\ runs < MaxRuns
    /\ runs' = runs + 1
    /\ ipc' = "bootstrap"
    /\ docs' = <<>>
    /\ embedded' = 0
    /\ vectorstore' = <<>>
    /\ UNCHANGED <<dataDir, persisted, embedCalls>>

\* if not nist_file.exists(): write_text(...); the same for cis_file
Bootstrap ==
    /\ UNCHANGED sessionVars
    /\ ipc = "bootstrap"
    /\ dataDir' = [f \in FileSet |->
                     IF f \in {"nist", "cis"} /\ dataDir[f] = "absent"
                     THEN "default" ELSE dataDir[f]]
    /\ ipc' = "call"
    /\ UNCHANGED <<persisted, docs, embedded, embedCalls, runs, vectorstore>>

\* build_or_load_index: if Path(INDEX_DIR).exists(): return Chroma(...)
BuildOrLoad ==
    /\ UNCHANGED sessionVars
    /\ ipc = "call"
    /\ IF IndexDirExists
       THEN /\ vectorstore' = persisted.entries
            /\ ipc' = "ready"
       ELSE /\ ipc' = "split"
            /\ UNCHANGED vectorstore
    /\ UNCHANGED <<dataDir, persisted, docs, embedded, embedCalls, runs>>

\* the for loop over DATA_DIR.glob("*.txt")
SplitDocs ==
    /\ UNCHANGED sessionVars
    /\ ipc = "split"
    /\ docs' = AllChunks(dataDir, 1)
    /\ ipc' = "create"
    /\ UNCHANGED <<dataDir, persisted, embedded, embedCalls, runs, vectorstore>>

\* Chroma.from_documents(..., persist_directory=INDEX_DIR): the store is opened
\* at INDEX_DIR, empty, before any text is embedded
CreateStore ==
    /\ UNCHANGED sessionVars
    /\ ipc = "create"
    /\ persisted' = [exists |-> TRUE, entries |-> <<>>]
    /\ ipc' = "embed"
    /\ UNCHANGED <<dataDir, docs, embedded, embedCalls, runs, vectorstore>>

\* one text is embedded
EmbedChunk ==
    /\ UNCHANGED sessionVars
    /\ ipc = "embed"
    /\ embedded < Len(docs)
    /\ embedded' = embedded + 1
    /\ embedCalls' = embedCalls + 1
    /\ UNCHANGED <<dataDir, persisted, ipc, docs, runs, vectorstore>>

\* the embedding provider fails: the exception leaves build_or_load_index and
\* the script (no handler, nothing is removed)
EmbedFails ==
    /\ UNCHANGED sessionVars
    /\ ipc = "embed"
    /\ embedded < Len(docs)
    /\ embedCalls' = embedCalls + 1
    /\ ipc' = "crashed"
    /\ UNCHANGED <<dataDir, persisted, docs, embedded, runs, vectorstore>>

\* all texts embedded: they are written to the store
AddTexts ==
    /\ UNCHANGED sessionVars
    /\ ipc = "embed"
    /\ embedded = Len(docs)
    /\ persisted' = [exists |-> TRUE, entries |-> docs]
    /\ ipc' = "persist"
    /\ UNCHANGED <<dataDir, docs, embedded, embedCalls, runs, vectorstore>>

\* vectorstore.persist(); return vectorstore
Persist ==
    /\ UNCHANGED sessionVars
    /\ ipc = "persist"
    /\ vectorstore' = persisted.entries
    /\ ipc' = "ready"
    /\ UNCHANGED <<dataDir, persisted, docs, embedded, embedCalls, runs>>

\* somebody changes, adds or removes a file of ./data
EditData(f, v) ==
    /\ UNCHANGED sessionVars
    /\ dataDir[f] # v
    /\ f = "extra" => v # "default"
    /\ dataDir' = [dataDir EXCEPT ![f] = v]
    /\ UNCHANGED <<persisted, ipc, docs, embedded, embedCalls, runs, vectorstore>>

IndexNext ==
    \/ StartProcess
    \/ Bootstrap
    \/ BuildOrLoad
    \/ SplitDocs
    \/ CreateStore
    \/ EmbedChunk
    \/ EmbedFails
    \/ AddTexts
    \/ Persist
    \/ \E f \in FileSet, v \in Versions : EditData(f, v)

IndexSpecInit == SessionsInit /\ IndexInit

IndexSpec == IndexSpecInit /\ [][IndexNext]_vars

(***************************************************************************)
(* Spec: the script has started; requests are served one at a time (one    *)
(* script thread).                                                         *)
(***************************************************************************)
MainThread == "t1"

Init ==
    /\ SessionsInit
    /\ vectorstore \in {<<>>, <<"chunk1", "chunk2">>}
    /\ IndexIdle

Next ==
    \/ \E q \in Questions, sid \in SessionIds : Ask(MainThread, q, sid)
    \/ \E found \in SearchResults : RetrieveReturns(MainThread, found)
    \/ \E e \in EmbeddingErrors : RetrieveRaises(MainThread, e)
    \/ Compose(MainThread)
    \/ GshCheck(MainThread)
    \/ GshCreate(MainThread)
    \/ GshReturn(MainThread)
    \/ LoadHistory(MainThread)
    \/ \E a \in PrimaryAnswers : PrimaryReturns(MainThread, a)
    \/ \E e \in BedrockErrors : PrimaryRaises(MainThread, e)
    \/ AppendHuman(MainThread)
    \/ AppendAI(MainThread)
    \/ CheckAnswer(MainThread)
    \/ \E c \in FallbackContents : FallbackReturns(MainThread, c)
    \/ \E e \in OpenAIErrors : FallbackRaises(MainThread, e)

Spec == Init /\ [][Next]_vars

(***************************************************************************)
(* ConcSpec: the host serves the requests of several threads at once; the  *)
(* statements of a request interleave with those of the others.  The       *)
(* inputs are cut down to one question and two answers.                    *)
(***************************************************************************)
ConcAnswers == {ANS_OK, ANS_BLANK}

ConcInit ==
    /\ SessionsInit
    /\ vectorstore = <<"chunk1", "chunk2">>
    /\ IndexIdle

ConcNext ==
    \E t \in Threads :
        \/ \E sid \in SessionIds : Ask(t, "q1", sid)
        \/ \E found \in SearchResults : RetrieveReturns(t, found)
        \/ \E e \in EmbeddingErrors : RetrieveRaises(t, e)
        \/ Compose(t)
        \/ GshCheck(t)
        \/ GshCreate(t)
        \/ GshReturn(t)
        \/ LoadHistory(t)
        \/ \E a \in ConcAnswers : PrimaryReturns(t, a)
        \/ \E e \in BedrockErrors : PrimaryRaises(t, e)
        \/ AppendHuman(t)
        \/ AppendAI(t)
        \/ CheckAnswer(t)
        \/ FallbackReturns(t, GPT_TEXT)
        \/ \E e \in OpenAIErrors : FallbackRaises(t, e)

ConcSpec == ConcInit /\ [][ConcNext]_vars

(***************************************************************************)
(* FairSpec: Spec, where a step the program can take by itself is taken.   *)
(* No fairness is stated for the steps that wait for a caller or for a     *)
(* hosted service: the calls carry no timeout in the source.               *)
(***************************************************************************)
ProgramSteps ==
    \/ Compose(MainThread)
    \/ GshCheck(MainThread)
    \/ GshCreate(MainThread)
    \/ GshReturn(MainThread)
    \/ LoadHistory(MainThread)
    \/ AppendHuman(MainThread)
    \/ AppendAI(MainThread)
    \/ CheckAnswer(MainThread)

FairSpec == Init /\ [][Next]_vars /\ WF_vars(ProgramSteps)

(***************************************************************************)
(*                               Claims                                    *)
(***************************************************************************)
Terminal == {"done", "failed"}

\* the answers the specification calls degenerate, case by case
DegenerateCases == {ANS_EMPTY, ANS_BLANK, ANS_UNABLE, ANS_MIXED}
GoodCases == {ANS_OK, ANS_NEAR}

\* the text returned to the caller without its label
ReturnedAnswer(t) == Tail(result[t])

\* C1: when the primary provider returns an empty, a blank or an "unable to
\* respond" answer (any case), the fallback provider is invoked exactly once
\* and, if the request ends in DONE, the returned text carries the fallback
\* label and not the primary label.
C1_FallbackOnDegenerate ==
    \A t \in Threads :
        (/\ pc[t] \in Terminal
         /\ primaryStatus[t] = "returned"
         /\ answer[t] \in DegenerateCases)
        => /\ fallbackCalls[t] = 1
           /\ pc[t] = "done" =>
                /\ SubSeq(result[t], 1, 1) = CHATGPT_LABEL
                /\ ~Contains(result[t], BEDROCK_LABEL)

C1_Witness ==
    \E t \in Threads :
        /\ pc[t] = "done"
        /\ primaryStatus[t] = "returned"
        /\ answer[t] = ANS_MIXED
        /\ fallbackCalls[t] = 1
        /\ result[t] = CHATGPT_LABEL \o <<"G", "P", "T">>

\* C2 (as stated): when the primary call raises e1 and the fallback call
\* raises e2, ask_secure_bot returns a text that holds both e1 and e2.
C2_BothErrorsReturned ==
    \A t \in Threads :
        (pc[t] = "failed" /\ primaryStatus[t] = "raised")
        => /\ result[t] # NoText
           /\ Contains(result[t], <<err1[t]>>)
           /\ Contains(result[t], <<err2[t]>>)

\* C2 (amended): when the primary call raises e1 and the fallback call raises
\* e2, ask_secure_bot returns a text that says both models failed and holds
\* e2; e1 is in the line printed to the log, not in the returned text.
C2_DualFailureText ==
    \A t \in Threads :
        (pc[t] = "failed" /\ primaryStatus[t] = "raised")
        => /\ result[t] # NoText
           /\ SubSeq(result[t], 1, 1) = BOTH_FAILED_LABEL
           /\ err2[t] # ""
           /\ Contains(result[t], <<err2[t]>>)
           /\ err1[t] # ""
           /\ Contains(logged[t], <<err1[t]>>)
           /\ err1[t] # err2[t] => ~Contains(result[t], <<err1[t]>>)

C2_Witness ==
    \E t \in Threads :
        /\ pc[t] = "failed"
        /\ primaryStatus[t] = "raised"
        /\ err1[t] = "ThrottlingException"
        /\ err2[t] = "RateLimitError"

\* C3: a request that ends in DONE has extended the transcript stored for its
\* session by exactly one pair of turns: the question, and the answer that was
\* returned to the caller (from whichever provider).
C3_ReturnedAnswerRecorded ==
    \A t \in Threads :
        pc[t] = "done" =>
            LET tr == Transcript(session[t])
                n == Len(histAtStart[t])
            IN  /\ Len(tr) = n + 2
                /\ SubSeq(tr, 1, n) = histAtStart[t]
                /\ tr[n + 1].role = "human"
                /\ Contains(tr[n + 1].content, <<question[t]>>)
                /\ tr[n + 2].role = "ai"
                /\ tr[n + 2].content = ReturnedAnswer(t)

\* C4: once all concurrent requests have finished, every turn any of them
\* appended is in the transcript stored under its session.
C4_NoLostUpdate ==
    (\A t \in Threads : pc[t] \in Quiescent) =>
        \A s \in SessionIds :
            /\ Len(Transcript(s)) = Len(appended[s])
            /\ \A i \in 1..Len(appended[s]) :
                 \E j \in 1..Len(Transcript(s)) : Transcript(s)[j] = appended[s][i]

\* C5: a request whose generation provider call is in flight eventually reaches
\* DONE or FAILED, also when the provider never responds.
C5_EventuallyAnswered ==
    \A t \in Threads :
        (pc[t] \in {"generating_primary", "generating_fallback"})
            ~> (pc[t] \in Terminal)

\* C6: when INDEX_DIR exists and no build is under way, no step changes the
\* persisted index or embeds anything; build_or_load_index called then loads
\* the persisted entries and does not enter the build.
C6_LoadLeavesIndexAlone ==
    [][ (persisted.exists /\ ipc \notin BuildPositions)
        => /\ persisted' = persisted
           /\ embedCalls' = embedCalls
           /\ ipc' \notin BuildPositions
           /\ (ipc = "call" /\ ipc' # "call")
                => (ipc' = "ready" /\ vectorstore' = persisted.entries)
      ]_vars

C6_Witness ==
    /\ runs >= 2
    /\ ipc = "ready"
    /\ persisted.exists
    /\ persisted.entries # <<>>
    /\ vectorstore = persisted.entries
    /\ AllChunks(dataDir, 1) # persisted.entries

\* C7: after a build that failed, nothing is persisted at INDEX_DIR, and an
\* index that was loaded lacks none of the chunks of the build that made it.
C7_BuildAllOrNothing ==
    /\ ipc = "crashed" => ~persisted.exists
    /\ (ipc = "ready" /\ runs >= 2) => vectorstore # <<>>

\* C8: over any sequence of requests, the transcript stored under a session is
\* exactly the turns appended by the requests made with that session, in order;
\* a request changes no other session's transcript; a stored session is never
\* replaced or removed.
C8_SessionIsolation ==
    /\ [](\A s \in SessionIds : Transcript(s) = appended[s])
    /\ [][ /\ \A s \in SessionIds : store[s] # 0 => store'[s] = store[s]
           /\ \A s \in SessionIds :
                s # session'[MainThread] => Transcript(s)' = Transcript(s)
       ]_vars

C8_Witness ==
    /\ Len(Transcript("A")) = 2
    /\ Len(Transcript("B")) = 2
    /\ Transcript("A") # Transcript("B")
    /\ pc[MainThread] = "done"

\* the texts of a list of messages, one after the other
RECURSIVE Flatten(_)
Flatten(msgs) ==
    IF msgs = <<>> THEN <<>> ELSE Head(msgs).content \o Flatten(Tail(msgs))

\* the "Context:" block of zero, one or two chunks, written out
ContextBlock(chunks) ==
    IF Len(chunks) = 0 THEN CONTEXT_LABEL
    ELSE IF Len(chunks) = 1 THEN CONTEXT_LABEL \o <<chunks[1]>>
    ELSE CONTEXT_LABEL \o <<chunks[1]>> \o BLANK_LINE \o <<chunks[2]>>

QuestionPart(q) == QUESTION_LABEL \o <<q>> \o NEWLINE

\* C9 (as stated): the input of the primary provider is, in this order, the
\* system context, the "Context:" block, the prior turns of the session, the
\* question.
C9_HistoryAfterContext ==
    \A t \in Threads :
        pc[t] = "generating_primary" =>
            Flatten(input[t]) =
                SECURITY_CONTEXT \o ContextBlock(ctx_docs[t])
                    \o Flatten(histAtStart[t]) \o QuestionPart(question[t])

\* C9 (amended): the input of the primary provider is, in this order, the prior
\* turns of the session, then one human message holding the system context, the
\* "Context:" block (the chunks in retrieval order, a blank line between them,
\* nothing when there is none) and the question.
C9_HistoryFirst ==
    \A t \in Threads :
        pc[t] = "generating_primary" =>
            LET n == Len(input[t])
            IN  /\ n = Len(histAtStart[t]) + 1
                /\ SubSeq(input[t], 1, n - 1) = histAtStart[t]
                /\ input[t][n].role = "human"
                /\ input[t][n].content =
                       SECURITY_CONTEXT \o ContextBlock(ctx_docs[t])
                           \o QuestionPart(question[t])

C9_Witness ==
    \E t \in Threads :
        /\ pc[t] = "generating_primary"
        /\ histAtStart[t] # <<>>
        /\ Len(ctx_docs[t]) = 2

\* the state of the specification's machine a position belongs to
Phase(p) ==
    CASE p = "idle" -> "IDLE"
      [] p = "retrieving" -> "RETRIEVING"
      [] p = "composing" -> "COMPOSING"
      [] p = "generating_fallback" -> "GENERATING_FALLBACK"
      [] p = "done" -> "DONE"
      [] p = "failed" -> "FAILED"
      [] OTHER -> "GENERATING_PRIMARY"

MachineEdges ==
    {<<"IDLE", "RETRIEVING">>, <<"DONE", "RETRIEVING">>, <<"FAILED", "RETRIEVING">>,
     <<"RETRIEVING", "COMPOSING">>, <<"COMPOSING", "GENERATING_PRIMARY">>,
     <<"GENERATING_PRIMARY", "DONE">>,
     <<"GENERATING_PRIMARY", "GENERATING_FALLBACK">>,
     <<"GENERATING_FALLBACK", "DONE">>, <<"GENERATING_FALLBACK", "FAILED">>}

FollowsEdges(edges) ==
    \A t \in Threads :
        Phase(pc[t]) # Phase(pc'[t]) => <<Phase(pc[t]), Phase(pc'[t])>> \in edges

\* no retries; a good primary answer is returned under the primary label
SingleAttempts ==
    \A t \in Threads :
        /\ primaryCalls[t] <= 1
        /\ fallbackCalls[t] <= 1
        /\ (pc[t] \in Terminal /\ primaryStatus[t] = "returned"
                /\ answer[t] \in GoodCases)
           => /\ fallbackCalls[t] = 0
              /\ pc[t] = "done"
              /\ result[t] = BEDROCK_LABEL \o answer[t]

PrimaryFailedOrDegenerate(t) ==
    \/ primaryStatus[t] = "raised"
    \/ primaryStatus[t] = "returned" /\ answer[t] \in DegenerateCases

\* C10 (as stated): the states of a request follow RETRIEVING, COMPOSING,
\* GENERATING_PRIMARY, then DONE or GENERATING_FALLBACK and then DONE or FAILED;
\* each provider is invoked at most once; the fallback is invoked only after
\* the primary provider raised or answered degenerately; a good primary answer
\* is returned under the primary label without any fallback.
C10_MachineAsStated ==
    /\ [][FollowsEdges(MachineEdges)]_vars
    /\ [](SingleAttempts
          /\ \A t \in Threads : fallbackCalls[t] > 0 => PrimaryFailedOrDegenerate(t))

\* C10 (amended): as stated, and also RETRIEVING is followed by
\* GENERATING_FALLBACK when retrieval raises: the fallback is invoked only
\* after ask_bedrock raised (in retrieval or in the primary call) or its answer
\* was degenerate.
C10_MachineWithRetrievalFailure ==
    /\ [][FollowsEdges(MachineEdges \cup {<<"RETRIEVING", "GENERATING_FALLBACK">>})]_vars
    /\ [](SingleAttempts
          /\ \A t \in Threads :
                fallbackCalls[t] > 0 =>
                    \/ PrimaryFailedOrDegenerate(t)
                    \/ /\ primaryStatus[t] = "none"
                       /\ primaryCalls[t] = 0
                       /\ err1[t] \in EmbeddingErrors)

C10_Witness ==
    \E t \in Threads :
        /\ pc[t] = "done"
        /\ primaryStatus[t] = "returned"
        /\ answer[t] = ANS_NEAR
        /\ primaryCalls[t] = 1
        /\ fallbackCalls[t] = 0
        /\ result[t] = BEDROCK_LABEL \o ANS_NEAR

====
